---- MODULE Spec2Model ----
(***************************************************************************)
(* A model of pppfy/appstore.py (class AppStorePricing): the country-name  *)
(* resolver with its match audit (dup_check), the load of the storefront   *)
(* currency table, the currency localisation, and the price rounding.      *)
(*                                                                         *)
(* Prices are exact decimals in the source (decimal.Decimal).  Here a      *)
(* price is an integer number of hundredths: 1234 stands for 12.34.        *)
(* A reference price keeps the literal form it was parsed from, because    *)
(* the source classifies it by the digits of str(reference_price): it is   *)
(* a record [coef, places] standing for coef / 10^places.                  *)
(* Text is a sequence of one-character strings.                            *)
(***************************************************************************)
EXTENDS Integers, Sequences, FiniteSets, TLC

VARIABLES
    country_info,                       \* self.country_info: the country dataset, in the order received
    country_names_map,                  \* self.country_names_map: code -> set of lower-cased names
    dup_check,                          \* self.dup_check: key -> sequence of <<name, match>>
    country_currency_mapping,           \* self.country_currency_mapping: key -> entry
    country_reference_rounded_prices,   \* self.country_reference_rounded_prices: code -> reference price
    specific_rows,                      \* history: key -> last row with a specific region code that targeted the key
    rows_done,                          \* number of table rows consumed so far
    call,                               \* the last operation called, with its arguments and result
    primary_calls,                      \* calls of currency_converter.convert made by the last operation
    remote_calls,                       \* calls of requests.get (rate service) made by the last operation
    resolve_calls                       \* number of direct calls of get_country_iso_code so far

vars == <<country_info, country_names_map, dup_check, country_currency_mapping, country_reference_rounded_prices,
          specific_rows, rows_done, call, primary_calls, remote_calls, resolve_calls>>

\* The unresolved result of get_country_iso_code (Python None).
None == "None"

\* Largest input price of the rounding runs, in hundredths.
MaxPrice == 16000

\* Number of rows (storefront table, then reference CSV) a run loads.
MaxRows == 3

\* Number of direct resolver calls a run makes.
MaxCalls == 2

----------------------------------------------------------------------------
(* Decimal arithmetic                                                      *)

Abs(x) == IF x < 0 THEN -x ELSE x

Pow10(k) == IF k = 0 THEN 1 ELSE IF k = 1 THEN 10 ELSE IF k = 2 THEN 100 ELSE 1000

\* Decimal.to_integral_value() under the default context (ROUND_HALF_EVEN),
\* applied to n / m for m > 0.
ToIntegralValue(n, m) ==
    LET q == n \div m
        r == n % m
    IN  IF 2 * r < m THEN q
        ELSE IF 2 * r > m THEN q + 1
        ELSE IF q % 2 = 0 THEN q ELSE q + 1

\* Decimal's % operator: the result takes the sign of the dividend.
DecimalRem(b, m) == IF b >= 0 THEN b % m ELSE -((-b) % m)

\* reference_price == reference_price.to_integral_value()
IsIntegral(ref) == ref.coef % Pow10(ref.places) = 0

\* int(reference_price)
IntOf(ref) == ref.coef \div Pow10(ref.places)

\* str(reference_price).endswith(<digit d> "." <frac digits>), where the
\* suffix has fracPlaces digits after the point and value suffix / 10^fracPlaces.
EndsWithDecimal(ref, suffix, fracPlaces) ==
    /\ ref.places = fracPlaces
    /\ ref.coef % Pow10(fracPlaces + 1) = suffix

\* The grid the reference price selects: the if/elif chain of the source.
GridOf(ref) ==
    IF IsIntegral(ref)
    THEN IF IntOf(ref) % 10 = 8 THEN "decade8"
         ELSE IF IntOf(ref) % 100 = 99 THEN "hundred99"
         ELSE "decade"
    ELSE IF EndsWithDecimal(ref, 499, 2) THEN "4.99"
         ELSE IF EndsWithDecimal(ref, 49, 1) THEN "4.9"
         ELSE IF EndsWithDecimal(ref, 998, 2) THEN "9.98"
         ELSE IF EndsWithDecimal(ref, 999, 2) THEN "9.99"
         ELSE IF EndsWithDecimal(ref, 99, 1) THEN "9.9"
         ELSE IF EndsWithDecimal(ref, 899, 2) THEN "8.99"
         ELSE "generic"

\* base_price - (base_price % Decimal("10")), in hundredths.
DecadeOfBase(price) ==
    LET base_price == ToIntegralValue(price, 100)
    IN  (base_price - DecimalRem(base_price, 10)) * 100

\* The candidate list built for a grid and an input price (hundredths).
Candidates(grid, price) ==
    CASE grid = "decade8"   -> << ToIntegralValue(price, 1000) * 1000 + 800,
                                  ToIntegralValue(price, 1000) * 1000 - 200 >>
      [] grid = "hundred99" -> << ToIntegralValue(price, 10000) * 10000 + 9900,
                                  ToIntegralValue(price, 10000) * 10000 - 100 >>
      [] grid = "decade"    -> << ToIntegralValue(price, 1000) * 1000 >>
      [] grid = "4.99"      -> << DecadeOfBase(price) + 499 >>
      [] grid = "4.9"       -> << DecadeOfBase(price) + 490 >>
      [] grid = "9.98"      -> << DecadeOfBase(price) + 998, DecadeOfBase(price) - 2 >>
      [] grid = "9.99"      -> << DecadeOfBase(price) + 999, DecadeOfBase(price) - 1 >>
      [] grid = "9.9"       -> << DecadeOfBase(price) + 990, DecadeOfBase(price) - 10 >>
      [] grid = "8.99"      -> << DecadeOfBase(price) + 899, DecadeOfBase(price) - 101 >>
      [] OTHER              -> << ToIntegralValue(price, 100) * 100 + 99 >>

\* A faulty selection: the last candidate of least distance.
MinLast(cands, price) ==
    IF Len(cands) = 1 THEN cands[1]
    ELSE IF Abs(cands[2] - price) <= Abs(cands[1] - price) THEN cands[2] ELSE cands[1]

\* min(candidates, key=lambda x: abs(x - price)): the first candidate of
\* least distance.
MinByDistance(cands, price) ==
    IF Len(cands) = 1 THEN cands[1]
    ELSE IF Abs(cands[2] - price) < Abs(cands[1] - price) THEN cands[2] ELSE cands[1]

\* round_off_price_to_appstore_format(iso2_code, price) against a reference
\* table: "ValueError" when the code has no reference price.
RoundOff(table, iso2_code, price) ==
    IF iso2_code \notin DOMAIN table THEN "ValueError"
    ELSE MinByDistance(Candidates(GridOf(table[iso2_code]), price), price)

----------------------------------------------------------------------------
(* Text                                                                    *)

\* str.lower() on one character.
LowerChar(ch) == IF ch = "A" THEN "a" ELSE IF ch = "B" THEN "b" ELSE ch

\* str.lower()
Lower(s) == [i \in 1..Len(s) |-> LowerChar(s[i])]

\* str.strip(): whitespace removed from both ends.
RECURSIVE StripLeft(_)
StripLeft(s) == IF s # <<>> /\ Head(s) = " " THEN StripLeft(Tail(s)) ELSE s
RECURSIVE StripRight(_)
StripRight(s) ==
    IF s # <<>> /\ s[Len(s)] = " " THEN StripRight(SubSeq(s, 1, Len(s) - 1)) ELSE s
Strip(s) == StripRight(StripLeft(s))

----------------------------------------------------------------------------
(* The name index                                                          *)

\* A country dataset, as requests.get(...).json() delivers it.  A record
\* without an official name has official = <<>>, which is what
\* country["name"].get("official", "") yields.
CountryDataset ==
    << [cca2 |-> "FR", common |-> <<"A">>, official |-> <<"a", "b">>,
        altSpellings |-> {<<"a", "a", "b">>, <<"B", "B">>}, translations |-> {}],
       [cca2 |-> "IN", common |-> <<"b">>, official |-> <<"A", "b">>,
        altSpellings |-> {}, translations |-> {[common |-> <<"b", " ", "a">>, official |-> <<"b">>]}],
       [cca2 |-> "VN", common |-> <<"B", "a">>, official |-> <<>>,
        altSpellings |-> {}, translations |-> {}] >>

\* A country record with one name and nothing else.
PlainCountry(cca2, name) ==
    [cca2 |-> cca2, common |-> name, official |-> name,
     altSpellings |-> {}, translations |-> {}]

\* The country dataset of the rounding runs: one country per price grid.
RoundingDataset ==
    << PlainCountry("TW", <<"t", "w">>), PlainCountry("TR", <<"t", "r">>),
       PlainCountry("KZ", <<"k", "z">>), PlainCountry("JP", <<"j", "p">>),
       PlainCountry("DK", <<"d", "k">>), PlainCountry("SE", <<"s", "e">>),
       PlainCountry("MX", <<"m", "x">>), PlainCountry("US", <<"u", "s">>),
       PlainCountry("NO", <<"n", "o">>), PlainCountry("BR", <<"b", "r">>),
       PlainCountry("GB", <<"g", "b">>), PlainCountry("CH", <<"c", "h">>) >>

\* The set all_names compiled for one country record.
AllNamesOf(country) ==
    {Lower(country.common), Lower(country.official)}
        \cup {Lower(n) : n \in {a \in country.altSpellings : Len(a) > 2}}
        \cup {Lower(t.common) : t \in country.translations}
        \cup {Lower(t.official) : t \in country.translations}

\* The keys of self.country_names_map in insertion order.
CodeOrder == [i \in 1..Len(country_info) |-> country_info[i].cca2]

\* fetch_country_names_map: the map built from a dataset.  A code that
\* occurs twice keeps the names of its last record.
fetch_country_names_map(info) ==
    [code \in {info[i].cca2 : i \in 1..Len(info)} |->
        AllNamesOf(info[CHOOSE i \in 1..Len(info) :
                            /\ info[i].cca2 = code
                            /\ \A j \in (i + 1)..Len(info) : info[j].cca2 # code])]

\* The flattened candidate list of the fuzzy pass, as a set.
all_names == UNION {country_names_map[code] : code \in DOMAIN country_names_map}

\* The acceptance threshold of the fuzzy pass.
Threshold == 80

\* process.extractOne(name, all_names, scorer=fuzz.WRatio) is a library
\* call: it yields some candidate of the list with some score.  Its outcomes
\* are the candidates paired with a score at the threshold or just above it.
FuzzyOutcomes == [best_match : all_names, score : {Threshold, Threshold + 1}]

\* The first code, in iteration order, whose name set holds the name;
\* None when there is none.
RECURSIVE FirstOwnerFrom(_, _)
FirstOwnerFrom(i, name) ==
    IF i > Len(CodeOrder) THEN None
    ELSE IF name \in country_names_map[CodeOrder[i]] THEN CodeOrder[i]
    ELSE FirstOwnerFrom(i + 1, name)
FirstOwner(name) == FirstOwnerFrom(1, name)

\* A faulty log: the entry replaces the key's list.
logReplacing(dup, iso_code, name, match) ==
    IF iso_code \in DOMAIN dup
    THEN [dup EXCEPT ![iso_code] = << <<name, match>> >>]
    ELSE dup @@ (iso_code :> << <<name, match>> >>)

\* log(iso_code, name, match)
log(dup, iso_code, name, match) ==
    IF iso_code \in DOMAIN dup
    THEN [dup EXCEPT ![iso_code] = Append(@, <<name, match>>)]
    ELSE dup @@ (iso_code :> << <<name, match>> >>)

\* The outcomes the fuzzy library call can have for a name: none matters
\* when the exact pass resolves the name (a fixed outcome stands in, unused).
NoFuzzy == [best_match |-> <<>>, score |-> 0]
FuzzyFor(rawname) ==
    IF FirstOwner(Lower(rawname)) = None THEN FuzzyOutcomes ELSE {NoFuzzy}

\* get_country_iso_code(name) given the outcome the fuzzy library call
\* would have: the value returned and the (name, match) pair logged under
\* it.  The match label is the matched text followed by the strategy.
Normalize(name) == Lower(name)
get_country_iso_code(rawname, fuzzy) ==
    LET name == Normalize(rawname)
    IN  IF FirstOwner(name) # None
        THEN [iso_code |-> FirstOwner(name), name |-> name,
              match |-> name \o <<"-direct">>, fuzzy_ran |-> FALSE]
        ELSE IF fuzzy.score > Threshold
        THEN [iso_code |-> FirstOwner(fuzzy.best_match), name |-> name,
              match |-> fuzzy.best_match \o <<"-thefuzz">>, fuzzy_ran |-> TRUE]
        ELSE [iso_code |-> None, name |-> name,
              match |-> <<"no match">>, fuzzy_ran |-> TRUE]

----------------------------------------------------------------------------
(* The currency table                                                      *)

\* Region codes of worldwide/placeholder rows, which the load skips.
Skipped == {"ZZ", "Z1"}

\* Region codes of aggregate groupings, which never replace an entry.
Aggregate == {"EU", "LL", "WW"}

\* Rows of the storefront table.  The "Countries or Regions" cell is given
\* as its comma-separated parts, before they are stripped: one part means
\* the cell holds no comma.
StorefrontRows ==
    { [region_code |-> "VN", countries |-> << <<"b", "a">> >>,
       report_region |-> "Vietnam", report_currency |-> "VND"],
      [region_code |-> "IN", countries |-> << <<"b">> >>,
       report_region |-> "India", report_currency |-> "INR"],
      [region_code |-> "AP", countries |-> << <<"b">>, <<" ", "b", "a">> >>,
       report_region |-> "Asia Pacific", report_currency |-> "SGD"],
      [region_code |-> "WW", countries |-> << <<"B", "a">>, <<" ", "b">> >>,
       report_region |-> "Rest of World", report_currency |-> "USD"],
      [region_code |-> "EU", countries |-> << <<"a">>, <<" ", "b", "b">> >>,
       report_region |-> "Euro-Zone", report_currency |-> "EUR"],
      [region_code |-> "WW", countries |-> << <<"a", "b">> >>,
       report_region |-> "Rest of World", report_currency |-> "USD"],
      [region_code |-> "ZZ", countries |-> << <<"a">>, <<" ", "b", "a">> >>,
       report_region |-> "Worldwide", report_currency |-> "USD"],
      [region_code |-> "Z1", countries |-> << <<"b", "a">> >>,
       report_region |-> "Placeholder", report_currency |-> "USD"] }

\* A faulty test: WW is missing from the aggregate codes.
KeepsExistingNoWW(mapping, iso_code, region_code) ==
    iso_code \in DOMAIN mapping /\ region_code \in {"EU", "LL"}

\* The test that makes the loop skip a name:
\* iso_code in mapping.keys() and item["Region Code"] in ["EU", "LL", "WW"].
KeepsExisting(mapping, iso_code, region_code) ==
    iso_code \in DOMAIN mapping /\ region_code \in Aggregate

\* mapping[key] = value on a dict.
SetItem(mapping, key, value) ==
    IF key \in DOMAIN mapping THEN [mapping EXCEPT ![key] = value]
    ELSE mapping @@ (key :> value)

\* The inner loop over the names of a multi-country row, from the i-th name
\* on.  st holds the mapping, the audit, the history of specific rows and
\* the keys resolved so far; fuzzies[i] is the outcome the fuzzy library
\* call has for the i-th name.
RECURSIVE ProcessNames(_, _, _, _)
ProcessNames(st, item, fuzzies, i) ==
    IF i > Len(item.countries) THEN st
    ELSE
        LET c    == Strip(item.countries[i])
            res  == get_country_iso_code(c, fuzzies[i])
            dup  == log(st.dup, res.iso_code, res.name, res.match)
            spec == IF item.region_code \in Aggregate THEN st.specific
                    ELSE SetItem(st.specific, res.iso_code, item)
            keys == Append(st.keys, res.iso_code)
        IN  IF KeepsExisting(st.mapping, res.iso_code, item.region_code)
            THEN ProcessNames([st EXCEPT !.dup = dup, !.specific = spec, !.keys = keys],
                              item, fuzzies, i + 1)
            ELSE ProcessNames(
                     [mapping  |-> SetItem(st.mapping, res.iso_code,
                                       [Report_Region   |-> item.report_region,
                                        Report_Currency |-> item.report_currency,
                                        Region_Code     |-> res.iso_code,
                                        Country         |-> c]),
                      dup      |-> dup,
                      specific |-> spec,
                      keys     |-> keys],
                     item, fuzzies, i + 1)

\* The body of the loop "for item in data" of
\* fetch_appstore_country_currency_mapping, for one row.
ProcessItem(st, item, fuzzies) ==
    IF item.region_code \in Skipped THEN [st EXCEPT !.keys = <<>>]
    ELSE IF Len(item.countries) > 1
    THEN ProcessNames([st EXCEPT !.keys = <<>>], item, fuzzies, 1)
    ELSE [st EXCEPT
            !.mapping  = SetItem(st.mapping, item.region_code,
                             [Report_Region   |-> item.report_region,
                              Report_Currency |-> item.report_currency,
                              Region_Code     |-> item.region_code,
                              Country         |-> item.countries[1]]),
            !.specific = IF item.region_code \in Aggregate THEN @
                         ELSE SetItem(@, item.region_code, item),
            !.keys     = <<item.region_code>>]

\* fetch_appstore_country_currency_mapping for a whole table, from the i-th
\* row on: the mapping starts empty and every row goes through the loop.
\* fuzzies[i] holds the fuzzy outcomes for the names of the i-th row.
RECURSIVE FetchRowsFrom(_, _, _, _)
FetchRowsFrom(st, data, fuzzies, i) ==
    IF i > Len(data) THEN st
    ELSE FetchRowsFrom(ProcessItem(st, data[i], fuzzies[i]), data, fuzzies, i + 1)
fetch_appstore_country_currency_mapping(dup, data, fuzzies) ==
    FetchRowsFrom([mapping |-> <<>>, dup |-> dup, specific |-> <<>>, keys |-> <<>>],
                  data, fuzzies, 1)

----------------------------------------------------------------------------
(* The reference prices                                                    *)

\* The body of the loop of load_reference_prices for one CSV row: the name
\* is resolved as it stands in the file, the attempt is logged, and the
\* price is stored when a code was found.
ReferenceRow(st, row, fuzzy) ==
    LET res == get_country_iso_code(row.name, fuzzy)
    IN  [dup    |-> log(st.dup, res.iso_code, res.name, res.match),
         prices |-> IF res.iso_code # None
                    THEN SetItem(st.prices, res.iso_code, row.price)
                    ELSE st.prices]

\* load_reference_prices for a whole CSV, from the i-th row on.
RECURSIVE LoadRowsFrom(_, _, _, _)
LoadRowsFrom(st, rows, fuzzies, i) ==
    IF i > Len(rows) THEN st
    ELSE LoadRowsFrom(ReferenceRow(st, rows[i], fuzzies[i]), rows, fuzzies, i + 1)
load_reference_prices(dup, rows, fuzzies) ==
    LoadRowsFrom([dup |-> dup, prices |-> <<>>], rows, fuzzies, 1)

----------------------------------------------------------------------------
(* Currency conversion                                                     *)

Currencies == {"USD", "EUR", "VND", "INR", "SGD"}

\* The currencies the offline table of currency_converter.CurrencyConverter
\* holds; convert raises ValueError for any other.
PrimarySupported == {"USD", "EUR", "INR", "SGD"}

\* The rates of the offline table and of the remote service: the worth of
\* one unit of each currency in a common unit.  The rate of a currency to
\* itself is 1.
Worth == [c \in Currencies |->
            CASE c = "USD" -> 9000 [] c = "EUR" -> 10000 [] c = "SGD" -> 7000
              [] c = "INR" -> 100 [] OTHER -> 1]

RECURSIVE GCD(_, _)
GCD(a, b) == IF b = 0 THEN a ELSE GCD(b, a % b)

\* The amount a rate source yields for a price: the product of the price
\* and the rate, unrounded, as the fraction num / den in lowest terms.
Converted(price, from_currency, to_currency) ==
    LET n == price * Worth[from_currency]
        d == Worth[to_currency]
    IN  [num |-> n \div GCD(n, d), den |-> d \div GCD(n, d)]

\* convert_between_currencies_by_market_xrate(price, from_currency, to_currency):
\* the value returned and the calls made to the offline table and to the
\* remote rate service.
convert_between_currencies_by_market_xrate(price, from_currency, to_currency) ==
    IF from_currency \in PrimarySupported /\ to_currency \in PrimarySupported
    THEN [ret |-> Converted(price, from_currency, to_currency),
          primary |-> 1, remote |-> 0]
    ELSE [ret |-> Converted(price, from_currency, to_currency),
          primary |-> 1, remote |-> 1]

\* self.country_currency_mapping.get(code, {}).get("Report Currency", country_currency)
AppstoreCurrency(mapping, country_iso2_code, country_currency) ==
    IF country_iso2_code \in DOMAIN mapping
    THEN mapping[country_iso2_code].Report_Currency
    ELSE country_currency

\* A faulty fast path: never taken.
SameCurrencyNever(country_currency, appstore_currency) == FALSE

\* The fast path of local_currency_to_appstore_preferred_currency.
SameCurrency(country_currency, appstore_currency) == country_currency = appstore_currency

\* local_currency_to_appstore_preferred_currency(country_iso2_code, price, country_currency)
local_currency_to_appstore_preferred_currency(mapping, country_iso2_code, price, country_currency) ==
    LET appstore_currency == AppstoreCurrency(mapping, country_iso2_code, country_currency)
        conv == convert_between_currencies_by_market_xrate(price, country_currency, appstore_currency)
    IN  IF SameCurrency(country_currency, appstore_currency)
        THEN [ret |-> <<appstore_currency, price>>, primary |-> 0, remote |-> 0]
        ELSE [ret |-> <<appstore_currency, conv.ret>>,
              primary |-> conv.primary, remote |-> conv.remote]

----------------------------------------------------------------------------
(* State machine                                                           *)

\* A reference price as Decimal(row["Price"]) parses it.
Dec(coef, places) == [coef |-> coef, places |-> places]

\* The reference CSV of the rounding runs: "98", "98.0", "999", "120",
\* "4.99", "4.9", "19.98", "9.99", "9.9", "8.99", "0.99", "4.90".
RoundingCsv ==
    << [name |-> <<"t", "w">>, price |-> Dec(98, 0)],
       [name |-> <<"t", "r">>, price |-> Dec(980, 1)],
       [name |-> <<"k", "z">>, price |-> Dec(999, 0)],
       [name |-> <<"j", "p">>, price |-> Dec(120, 0)],
       [name |-> <<"d", "k">>, price |-> Dec(499, 2)],
       [name |-> <<"s", "e">>, price |-> Dec(49, 1)],
       [name |-> <<"m", "x">>, price |-> Dec(1998, 2)],
       [name |-> <<"u", "s">>, price |-> Dec(999, 2)],
       [name |-> <<"n", "o">>, price |-> Dec(99, 1)],
       [name |-> <<"b", "r">>, price |-> Dec(899, 2)],
       [name |-> <<"g", "b">>, price |-> Dec(99, 2)],
       [name |-> <<"c", "h">>, price |-> Dec(490, 2)] >>

\* The storefront table of the rounding runs.
RoundingTable ==
    << [region_code |-> "TW", countries |-> << <<"t", "w">> >>,
        report_region |-> "Taiwan", report_currency |-> "TWD"],
       [region_code |-> "WW", countries |-> << <<"k", "z">>, <<" ", "t", "w">> >>,
        report_region |-> "Rest of World", report_currency |-> "USD"] >>

\* The storefront table and the reference CSV the resolver runs are
\* constructed with.
SampleTable ==
    << [region_code |-> "VN", countries |-> << <<"b", "a">> >>,
        report_region |-> "Vietnam", report_currency |-> "VND"],
       [region_code |-> "WW", countries |-> << <<"B", "a">>, <<" ", "b">> >>,
        report_region |-> "Rest of World", report_currency |-> "USD"] >>
SampleCsv ==
    << [name |-> <<"A">>, price |-> Dec(99, 2)],
       [name |-> <<"b">>, price |-> Dec(98, 0)] >>

\* Rows of the reference CSV the load runs draw from; the last name carries
\* a trailing blank, as a CSV cell can.
ReferenceRows ==
    { [name |-> <<"B">>, price |-> Dec(98, 0)],
      [name |-> <<"a", " ">>, price |-> Dec(99, 2)] }

\* Country codes the rounding is called with; "ZW" has no reference price.
RoundCodes == {RoundingDataset[i].cca2 : i \in 1..Len(RoundingDataset)} \cup {"ZW"}

\* Texts get_country_iso_code is called with.
InputNames ==
    { <<"a">>, <<"A">>, <<" ", "a">>, <<"a", " ">>, <<"A", "b">>, <<"b", " ", "a">>,
      <<"b", "b">>, <<"a", "a">>, <<>>, <<" ">> }

\* Arguments of the currency operations.
LocalizeCodes == {"FR", "VN", "WW", "ZW"}
Prices == {1050}
QueryCurrencies == {"USD", "EUR", "VND"}

\* The state __init__ leaves for a country dataset, a storefront table and
\* a reference CSV: the name index is built, then the currency table is
\* loaded, then the reference prices.  The names of the table and of the
\* CSV are ones the exact pass resolves, so no fuzzy outcome is met.
InitConstructed(info, data, rows) ==
    /\ country_info = info
    /\ country_names_map = fetch_country_names_map(info)
    /\ LET t == fetch_appstore_country_currency_mapping(
                    <<>>, data, [i \in 1..Len(data) |-> [j \in 1..2 |-> NoFuzzy]])
           r == load_reference_prices(t.dup, rows, [i \in 1..Len(rows) |-> NoFuzzy])
       IN  /\ dup_check = r.dup
           /\ country_currency_mapping = t.mapping
           /\ specific_rows = t.specific
           /\ country_reference_rounded_prices = r.prices
    /\ rows_done = 0
    /\ primary_calls = 0
    /\ remote_calls = 0
    /\ resolve_calls = 0

Init ==
    /\ InitConstructed(CountryDataset, SampleTable, SampleCsv)
    /\ call = [op |-> "init"]

\* A direct call of get_country_iso_code(name).
GetCountryIsoCode(name, fuzzy) ==
    /\ resolve_calls < MaxCalls
    /\ LET res == get_country_iso_code(name, fuzzy)
       IN  /\ dup_check' = log(dup_check, res.iso_code, res.name, res.match)
           /\ call' = [op |-> "get_country_iso_code", name |-> name, ret |-> res.iso_code,
                       logged |-> <<res.name, res.match>>, fuzzy_ran |-> res.fuzzy_ran]
    /\ resolve_calls' = resolve_calls + 1
    /\ UNCHANGED <<country_info, country_names_map, country_currency_mapping, country_reference_rounded_prices,
                   specific_rows, rows_done, primary_calls, remote_calls>>

Next == \E name \in InputNames, fuzzy \in FuzzyOutcomes : GetCountryIsoCode(name, fuzzy)

Spec == Init /\ [][Next]_vars

\* The construction runs start from the state __init__ leaves for an empty
\* storefront table and an empty reference CSV.  Each FetchRow step puts one
\* more row at the end of the table and each LoadReferenceRow step one more
\* row at the end of the CSV; table rows come before CSV rows, as __init__
\* loads the table first, so every state is the one __init__ leaves for the
\* rows taken so far.
InitStore ==
    /\ InitConstructed(CountryDataset, <<>>, <<>>)
    /\ call = [op |-> "init"]

\* The outcomes of the fuzzy library calls a row can meet, from its i-th
\* name on: one per name that reaches the fuzzy pass; a row that resolves no
\* name meets none.
RECURSIVE FuzziesFrom(_, _)
FuzziesFrom(item, i) ==
    IF i > Len(item.countries) THEN {<<>>}
    ELSE LET resolves == item.region_code \notin Skipped /\ Len(item.countries) > 1
             here == IF resolves THEN FuzzyFor(Strip(item.countries[i])) ELSE {NoFuzzy}
         IN  {<<f>> \o rest : f \in here, rest \in FuzziesFrom(item, i + 1)}
FuzziesFor(item) == FuzziesFrom(item, 1)

\* One more row of the storefront table goes through the loop of
\* fetch_appstore_country_currency_mapping.
FetchRow(item, fuzzies) ==
    /\ rows_done < MaxRows
    /\ call.op \in {"init", "row"}
    /\ LET st == ProcessItem([mapping |-> country_currency_mapping, dup |-> dup_check,
                              specific |-> specific_rows, keys |-> <<>>], item, fuzzies)
       IN  /\ country_currency_mapping' = st.mapping
           /\ dup_check' = st.dup
           /\ specific_rows' = st.specific
           /\ call' = [op |-> "row", item |-> item, keys |-> st.keys]
    /\ rows_done' = rows_done + 1
    /\ primary_calls' = 0
    /\ remote_calls' = 0
    /\ UNCHANGED <<country_info, country_names_map, country_reference_rounded_prices, resolve_calls>>

\* One more row of the reference CSV goes through the loop of
\* load_reference_prices.
LoadReferenceRow(row, fuzzy) ==
    /\ rows_done < MaxRows
    /\ call.op \in {"init", "row", "reference"}
    /\ LET st == ReferenceRow([dup |-> dup_check, prices |-> country_reference_rounded_prices],
                              row, fuzzy)
       IN  /\ dup_check' = st.dup
           /\ country_reference_rounded_prices' = st.prices
    /\ call' = [op |-> "reference", row |-> row]
    /\ rows_done' = rows_done + 1
    /\ primary_calls' = 0
    /\ remote_calls' = 0
    /\ UNCHANGED <<country_info, country_names_map, country_currency_mapping, specific_rows, resolve_calls>>

\* A call of local_currency_to_appstore_preferred_currency on the
\* constructed object.
Localize(country_iso2_code, price, country_currency) ==
    /\ call.op \in {"init", "row", "reference"}
    /\ LET r == local_currency_to_appstore_preferred_currency(
                    country_currency_mapping, country_iso2_code, price, country_currency)
       IN  /\ call' = [op |-> "localize", country_iso2_code |-> country_iso2_code,
                       price |-> price, country_currency |-> country_currency, ret |-> r.ret]
           /\ primary_calls' = r.primary
           /\ remote_calls' = r.remote
    /\ UNCHANGED <<country_info, country_names_map, dup_check, country_currency_mapping, country_reference_rounded_prices,
                   specific_rows, rows_done, resolve_calls>>

\* A call of convert_between_currencies_by_market_xrate on the constructed
\* object.
Convert(price, from_currency, to_currency) ==
    /\ call.op \in {"init", "row", "reference"}
    /\ LET r == convert_between_currencies_by_market_xrate(price, from_currency, to_currency)
       IN  /\ call' = [op |-> "convert", price |-> price, from_currency |-> from_currency,
                       to_currency |-> to_currency, ret |-> r.ret]
           /\ primary_calls' = r.primary
           /\ remote_calls' = r.remote
    /\ UNCHANGED <<country_info, country_names_map, dup_check, country_currency_mapping, country_reference_rounded_prices,
                   specific_rows, rows_done, resolve_calls>>

NextStore ==
    \/ \E item \in StorefrontRows : \E fuzzies \in FuzziesFor(item) : FetchRow(item, fuzzies)
    \/ \E row \in ReferenceRows : \E fuzzy \in FuzzyFor(row.name) : LoadReferenceRow(row, fuzzy)
    \/ \E code \in LocalizeCodes, price \in Prices, cur \in QueryCurrencies : Localize(code, price, cur)
    \/ \E price \in Prices, from_currency \in QueryCurrencies, to_currency \in QueryCurrencies :
           Convert(price, from_currency, to_currency)

SpecStore == InitStore /\ [][NextStore]_vars

\* The rounding runs: an input is chosen, rounded, and the result rounded again.
InitRound ==
    /\ InitConstructed(RoundingDataset, RoundingTable, RoundingCsv)
    /\ call \in [op : {"input"}, iso2_code : RoundCodes, price : 0..MaxPrice]

RoundOffPrice ==
    /\ call.op = "input"
    /\ call' = [op |-> "round", iso2_code |-> call.iso2_code, price |-> call.price,
                ret |-> RoundOff(country_reference_rounded_prices, call.iso2_code, call.price)]
    /\ UNCHANGED <<country_info, country_names_map, dup_check, country_currency_mapping, country_reference_rounded_prices,
                   specific_rows, rows_done, primary_calls, remote_calls, resolve_calls>>

RoundOffAgain ==
    /\ call.op = "round"
    /\ call.iso2_code \in DOMAIN country_reference_rounded_prices
    /\ call' = [op |-> "reround", iso2_code |-> call.iso2_code, price |-> call.ret,
                ret |-> RoundOff(country_reference_rounded_prices, call.iso2_code, call.ret)]
    /\ UNCHANGED <<country_info, country_names_map, dup_check, country_currency_mapping, country_reference_rounded_prices,
                   specific_rows, rows_done, primary_calls, remote_calls, resolve_calls>>

NextRound == RoundOffPrice \/ RoundOffAgain

SpecRound == InitRound /\ [][NextRound]_vars

----------------------------------------------------------------------------
(* Properties                                                              *)

\* C1: rounding is idempotent on every grid: rounding a rounded price again
\* returns it unchanged.
C1_RoundingIdempotent ==
    call.op = "reround" => call.ret = call.price

\* C2: an entry written by a row with a specific region code keeps that
\* row's report currency and report region whatever aggregate rows (EU, LL,
\* WW) follow, an aggregate row leaves every such entry as it was, and a row
\* with region code ZZ or Z1 writes nothing.
C2_SpecificEntryKept ==
    /\ [](\A k \in DOMAIN specific_rows :
            /\ k \in DOMAIN country_currency_mapping
            /\ country_currency_mapping[k].Report_Currency = specific_rows[k].report_currency
            /\ country_currency_mapping[k].Report_Region = specific_rows[k].report_region)
    /\ [][call'.op = "row" /\ rows_done' # rows_done =>
            /\ call'.item.region_code \in Aggregate =>
                  \A k \in DOMAIN specific_rows :
                      country_currency_mapping'[k] = country_currency_mapping[k]
            /\ call'.item.region_code \in Skipped =>
                  country_currency_mapping' = country_currency_mapping]_vars

\* C2 witness: an aggregate multi-country row has just named a country whose
\* entry a specific row wrote with another currency, and the entry is still
\* the specific row's.
C2_Witness ==
    /\ call.op = "row"
    /\ call.item.region_code \in Aggregate
    /\ \E i \in 1..Len(call.keys) :
          /\ call.keys[i] \in DOMAIN specific_rows
          /\ specific_rows[call.keys[i]].report_currency # call.item.report_currency
          /\ country_currency_mapping[call.keys[i]].Report_Currency
                 = specific_rows[call.keys[i]].report_currency

\* C3: the currency mapping never holds an entry under the unresolved key.
C3_NoUnresolvedKey ==
    None \notin DOMAIN country_currency_mapping

\* C4: localisation returns (currency, amount) unchanged without calling the
\* converter when the target currency (the mapped report currency, or the
\* source currency when the code has no entry) equals the source currency,
\* and calls the converter exactly when they differ.
C4_PassThrough ==
    call.op = "localize" =>
        LET target == IF call.country_iso2_code \in DOMAIN country_currency_mapping
                      THEN country_currency_mapping[call.country_iso2_code].Report_Currency
                      ELSE call.country_currency
        IN  /\ call.ret[1] = target
            /\ target = call.country_currency =>
                  /\ primary_calls = 0
                  /\ remote_calls = 0
                  /\ call.ret = <<call.country_currency, call.price>>
            /\ target # call.country_currency => primary_calls = 1

\* C4 witness: a code with an entry whose report currency is the source
\* currency was localised, with no converter call.
C4_Witness ==
    /\ call.op = "localize"
    /\ call.country_iso2_code \in DOMAIN country_currency_mapping
    /\ country_currency_mapping[call.country_iso2_code].Report_Currency = call.country_currency
    /\ call.ret = <<call.country_currency, call.price>>
    /\ primary_calls = 0
    /\ remote_calls = 0

\* C5: a conversion from a currency to itself returns the amount unchanged
\* and consults neither the offline table nor the remote rate service.
C5_SameCurrencyNoIO ==
    (call.op = "convert" /\ call.from_currency = call.to_currency) =>
        /\ call.ret.num = call.price * call.ret.den
        /\ primary_calls = 0
        /\ remote_calls = 0

\* C6: when the input, lower-cased and trimmed, is in some code's name set,
\* the resolver returns a code whose name set holds it, with strategy
\* "direct", and the fuzzy pass does not run.
C6_ExactMatchPriority ==
    (/\ call.op = "get_country_iso_code"
     /\ \E code \in DOMAIN country_names_map :
            Strip(Lower(call.name)) \in country_names_map[code]) =>
        /\ ~call.fuzzy_ran
        /\ call.ret \in DOMAIN country_names_map
        /\ Strip(Lower(call.name)) \in country_names_map[call.ret]
        /\ call.logged[2] = Strip(Lower(call.name)) \o <<"-direct">>

\* C7: on a two-candidate grid the result is the candidate, of d + suffix
\* and d + suffix - step with d the price rounded down to the step, that is
\* nearer the price; on a tie it is the first, larger one.
C7_TwoCandidateSelection ==
    LET grid == GridOf(country_reference_rounded_prices[call.iso2_code])
        step == IF grid = "hundred99" THEN 10000 ELSE 1000
        suffix == CASE grid = "decade8" -> 800 [] grid = "hundred99" -> 9900
                    [] grid = "9.98" -> 998 [] grid = "9.99" -> 999
                    [] grid = "9.9" -> 990 [] grid = "8.99" -> 899
        d == (call.price \div step) * step
        first == d + suffix
        second == d + suffix - step
    IN  (/\ call.op = "round"
         /\ call.iso2_code \in DOMAIN country_reference_rounded_prices
         /\ grid \in {"decade8", "hundred99", "9.98", "9.99", "9.9", "8.99"}) =>
            /\ call.ret = IF Abs(second - call.price) < Abs(first - call.price)
                          THEN second ELSE first
            /\ Abs(second - call.price) = Abs(first - call.price) => call.ret >= call.price

\* C7 witness: a price exactly between the two candidates of a two-candidate
\* grid was rounded to the first, larger one.
C7_Witness ==
    /\ call.op = "round"
    /\ call.iso2_code \in DOMAIN country_reference_rounded_prices
    /\ LET grid == GridOf(country_reference_rounded_prices[call.iso2_code])
           step == IF grid = "hundred99" THEN 10000 ELSE 1000
       IN  /\ grid \in {"decade8", "hundred99", "9.98", "9.99", "9.9", "8.99"}
           /\ call.ret - call.price = call.price - (call.ret - step)
           /\ call.price >= step

\* C8: on the generic .99 grid the rounded price is the integer part of the
\* price plus 0.99.
C8_GenericGridFloor ==
    (/\ call.op = "round"
     /\ call.iso2_code \in DOMAIN country_reference_rounded_prices
     /\ GridOf(country_reference_rounded_prices[call.iso2_code]) = "generic") =>
        call.ret = (call.price \div 100) * 100 + 99

\* C9: a call of get_country_iso_code appends exactly one entry to the
\* audit, under the key it returns, holding the lower-cased input and the
\* matched name with its strategy; it leaves every other entry as it was,
\* and the value returned is one the name index gives for the input.
C9_AuditAppendOnly ==
    [][resolve_calls' # resolve_calls =>
        LET k == call'.ret
            before == IF k \in DOMAIN dup_check THEN dup_check[k] ELSE <<>>
            match == call'.logged[2]
            strategy == match[Len(match)]
        IN  /\ DOMAIN dup_check' = DOMAIN dup_check \cup {k}
            /\ dup_check'[k] = Append(before, call'.logged)
            /\ \A j \in DOMAIN dup_check \ {k} : dup_check'[j] = dup_check[j]
            /\ call'.logged[1] = Lower(call'.name)
            /\ IF k = None THEN match = <<"no match">>
               ELSE /\ strategy \in {"-direct", "-thefuzz"}
                    /\ SubSeq(match, 1, Len(match) - 1) \in country_names_map[k]
            /\ k \in {get_country_iso_code(call'.name, f).iso_code : f \in FuzzyOutcomes}
      ]_vars

\* C9 witness: a second miss was appended under the unresolved key, after
\* the first.
C9_Witness ==
    /\ call.op = "get_country_iso_code"
    /\ call.ret = None
    /\ Len(dup_check[None]) = 2
    /\ dup_check[None][2] = call.logged

\* C10: a strictly positive price is rounded to a strictly positive price.
C10_PositiveResult ==
    (/\ call.op = "round"
     /\ call.iso2_code \in DOMAIN country_reference_rounded_prices
     /\ call.price > 0) =>
        call.ret > 0

====
